---- MODULE Spec2Model ----
(***************************************************************************)
(* Model of the payeasy Supabase integration layer:                        *)
(*   - lib/supabase/client.ts  (browser client factory and singleton)      *)
(*   - lib/supabase/server.ts  (admin singleton, cookie-scoped client,     *)
(*                              getCurrentUser / getCurrentSession)        *)
(*   - hooks/useAuth.ts        (auth state hook, useRequireAuth)           *)
(*   - __mocks__/supabaseMock  (jest mock of the SDK client)               *)
(*                                                                         *)
(* The specifications share the module's variables:                        *)
(*   SpecClients      the client factories and server helpers              *)
(*   SpecHook         one instance of the useAuth hook, the SDK it talks   *)
(*                    to and the router                                    *)
(*   SpecCookies      the cookie callbacks of the cookie-scoped client     *)
(*   SpecRequireAuth  the redirect effect of useRequireAuth                *)
(*   SpecMock         the mock client and the chains called on it          *)
(***************************************************************************)
EXTENDS Integers, Sequences, FiniteSets, TLC

VARIABLES
    \* ---- client.ts / server.ts ----
    env,                   \* process.env: the three Supabase variables
    clientInstance,        \* client.ts module variable (0 = null)
    adminClientInstance,   \* server.ts module variable (0 = null)
    clients,               \* every SDK client constructed so far; index = identity
    hist,                  \* history: what the singletons did since the last reset
    lastCall,              \* observation: outcome of the most recent call
    \* ---- useAuth.ts ----
    user, session, loading, error,   \* the four useState cells
    mounted,               \* the component using the hook is mounted
    effectRuns,            \* how many times the mount effect has run
    subscription,          \* handle held by the effect closure (0 = none)
    subscribed,            \* SDK side: handles whose callback is registered
    fetch,                 \* getInitialSession call of the current effect run
    stale,                 \* getInitialSession calls of earlier runs, still in flight
    calls,                 \* signOut / refreshSession calls in flight
    extSession,            \* the auth service's current session
    last,                  \* observation: what the most recent hook step did
    \* ---- server.ts: cookie callbacks of createServerClient ----
    cookieStore,           \* the request's cookie store: name -> what was set
    lastCookies,           \* observation: outcome of the most recent callback
    \* ---- useAuth.ts: useRequireAuth ----
    pathname,              \* window.location.pathname
    guardDeps,             \* dependency array of the redirect effect, last render
    pushed,                \* observation: what the last render's effect pushed
    \* ---- supabaseMock.ts: createMockSupabaseClient ----
    mocks,                 \* every jest.fn of the mock client: return value, calls
    receiver               \* the value the test's chain expression has reached

clientVars == <<env, clientInstance, adminClientInstance, clients, hist, lastCall>>
hookVars == <<user, session, loading, error, mounted, effectRuns, subscription,
              subscribed, fetch, stale, calls, extSession, last>>
cookieVars == <<cookieStore, lastCookies>>
guardVars == <<pathname, guardDeps, pushed>>
mockVars == <<mocks, receiver>>
vars == <<env, clientInstance, adminClientInstance, clients, hist, lastCall,
          user, session, loading, error, mounted, effectRuns, subscription,
          subscribed, fetch, stale, calls, extSession, last,
          cookieStore, lastCookies, pathname, guardDeps, pushed, mocks, receiver>>

----------------------------------------------------------------------------
(* Bounds *)

\* SDK clients constructed in one behaviour
MaxClients == 2
\* distinct non-null sessions the auth service can hold
NumSessions == 1
\* signOut / refreshSession calls in flight at once
MaxCalls == 2
\* runs of the mount effect (first mount plus dependency changes)
MaxEffectRuns == 2
\* cookies the SDK hands to one setAll call
MaxCookies == 2
\* characters in window.location.pathname
MaxPathLen == 3
\* calls a test makes to one jest.fn of the mock client
MaxMockCalls == 2

----------------------------------------------------------------------------
(* Values *)

\* JS null for object references, users and sessions
Null == 0

\* process.env values: absent, empty, or a non-empty string
Undefined == "<undefined>"
EnvValues == {Undefined, "", "value"}
EnvNames == {"NEXT_PUBLIC_SUPABASE_URL", "NEXT_PUBLIC_SUPABASE_ANON_KEY",
             "SUPABASE_SERVICE_ROLE_KEY"}

\* JS `!x` on string | undefined
Falsy(x) == x = Undefined \/ x = ""

\* the two messages, without their leading mark
BrowserConfigError ==
    "Missing Supabase environment variables. Please set NEXT_PUBLIC_SUPABASE_URL and NEXT_PUBLIC_SUPABASE_ANON_KEY"
AdminConfigError ==
    "Missing Supabase environment variables. Please set NEXT_PUBLIC_SUPABASE_URL and SUPABASE_SERVICE_ROLE_KEY"
NoMessage == "<none>"

\* options handed to the SDK constructors
BrowserOptions ==
    [kind |-> "browser", persistSession |-> TRUE, autoRefreshToken |-> TRUE,
     detectSessionInUrl |-> TRUE, clientInfo |-> "payeasy-web@1.0.0"]
\* mutant: the elevated client keeps and refreshes a session
AdminOptions_Persists ==
    [kind |-> "admin", persistSession |-> TRUE, autoRefreshToken |-> TRUE,
     detectSessionInUrl |-> FALSE, clientInfo |-> "payeasy-admin@1.0.0"]

AdminOptions ==
    [kind |-> "admin", persistSession |-> FALSE, autoRefreshToken |-> FALSE,
     detectSessionInUrl |-> FALSE, clientInfo |-> "payeasy-admin@1.0.0"]
ServerOptions ==
    [kind |-> "server", persistSession |-> TRUE, autoRefreshToken |-> TRUE,
     detectSessionInUrl |-> FALSE, clientInfo |-> "payeasy-server@1.0.0"]
NoOptions ==
    [kind |-> "none", persistSession |-> FALSE, autoRefreshToken |-> FALSE,
     detectSessionInUrl |-> FALSE, clientInfo |-> ""]

\* result of a factory: either it throws `message`, or it hands `options` to the SDK
Throws(m) == [threw |-> TRUE, message |-> m, options |-> NoOptions]
Constructs(o) == [threw |-> FALSE, message |-> NoMessage, options |-> o]

----------------------------------------------------------------------------
(* client.ts *)

createBrowserClient(e) ==
    IF Falsy(e["NEXT_PUBLIC_SUPABASE_URL"]) \/ Falsy(e["NEXT_PUBLIC_SUPABASE_ANON_KEY"])
    THEN Throws(BrowserConfigError)
    ELSE Constructs(BrowserOptions)

(* server.ts *)

\* mutant: the service key is not checked
createAdminClient_KeyUnchecked(e) ==
    IF Falsy(e["NEXT_PUBLIC_SUPABASE_URL"])
    THEN Throws(AdminConfigError)
    ELSE Constructs(AdminOptions)

createAdminClient(e) ==
    IF Falsy(e["NEXT_PUBLIC_SUPABASE_URL"]) \/ Falsy(e["SUPABASE_SERVICE_ROLE_KEY"])
    THEN Throws(AdminConfigError)
    ELSE Constructs(AdminOptions)

\* the synchronous prefix of createServerClient: the environment check
createServerClientCheck(e) ==
    IF Falsy(e["NEXT_PUBLIC_SUPABASE_URL"]) \/ Falsy(e["NEXT_PUBLIC_SUPABASE_ANON_KEY"])
    THEN Throws(BrowserConfigError)
    ELSE Constructs(ServerOptions)

\* createServerClient: environment check, then `await cookies()`, then the SDK
\* constructor. cookiesOk = FALSE is cookies() rejecting (no request scope).
CookiesError == "cookies() was called outside a request scope"
createServerClient(e, cookiesOk) ==
    IF createServerClientCheck(e).threw THEN createServerClientCheck(e)
    ELSE IF ~cookiesOk THEN Throws(CookiesError)
    ELSE Constructs(ServerOptions)

\* What supabase.auth.getUser() / getSession() can do: resolve to
\* {data: {value}, error} or reject. value = Null is "no user" / "no session".
SdkError == "AuthApiError"
SdkResults ==
    [kind : {"resolve"}, value : 0..NumSessions, error : BOOLEAN]
        \cup [kind : {"reject"}, value : {Null}, error : {TRUE}]

\* outcome of an async helper: it resolves to `value` or rejects with `message`
Resolves(v) == [threw |-> FALSE, message |-> NoMessage, value |-> v]
Rejects(m) == [threw |-> TRUE, message |-> m, value |-> Null]

\* body shared by getCurrentUser (lines 155-167) and getCurrentSession (174-186):
\* neither has a try/catch, so a rejection of either await rejects the helper
currentOrNull(created, sdk) ==
    IF created.threw THEN Rejects(created.message)
    ELSE IF sdk.kind = "reject" THEN Rejects(SdkError)
    ELSE IF sdk.error \/ sdk.value = Null THEN Resolves(Null)
    ELSE Resolves(sdk.value)

getCurrentUser(e, cookiesOk, sdk) == currentOrNull(createServerClient(e, cookiesOk), sdk)

getCurrentSession(e, cookiesOk, sdk) == currentOrNull(createServerClient(e, cookiesOk), sdk)

----------------------------------------------------------------------------
(* Actions of the client factories *)

Call(op, threw, message, value) ==
    [op |-> op, threw |-> threw, message |-> message, value |-> value]

\* the SDK constructor: a new object, distinct from every earlier one
NewClient == Len(clients) + 1

SetEnv ==
    /\ \E n \in EnvNames, v \in EnvValues :
          /\ env[n] # v
          /\ env' = [env EXCEPT ![n] = v]
    /\ lastCall' = Call("setEnv", FALSE, NoMessage, Null)
    /\ UNCHANGED <<clientInstance, adminClientInstance, clients, hist>>
    /\ UNCHANGED hookVars
    /\ UNCHANGED <<cookieVars, guardVars, mockVars>>

\* a factory called directly: the result is returned, nothing is cached
Factory(op, r) ==
    /\ IF r.threw
         THEN /\ clients' = clients
              /\ lastCall' = Call(op, TRUE, r.message, Null)
         ELSE /\ Len(clients) < MaxClients
              /\ clients' = Append(clients, r.options)
              /\ lastCall' = Call(op, FALSE, NoMessage, NewClient)
    /\ UNCHANGED <<env, clientInstance, adminClientInstance, hist>>
    /\ UNCHANGED hookVars
    /\ UNCHANGED <<cookieVars, guardVars, mockVars>>

CreateBrowserClient == Factory("createBrowserClient", createBrowserClient(env))

CreateAdminClient == Factory("createAdminClient", createAdminClient(env))

CreateServerClient ==
    \E cookiesOk \in BOOLEAN :
        Factory("createServerClient", createServerClient(env, cookiesOk))

\* mutant: the module variable is assigned before the factory has succeeded
GetSingleton_CachesFailure(op, which, cached, r) ==
    /\ IF cached # Null
         THEN /\ clients' = clients
              /\ hist' = [hist EXCEPT ![which].fresh = FALSE]
              /\ lastCall' = Call(op, FALSE, NoMessage, cached)
              /\ UNCHANGED <<clientInstance, adminClientInstance>>
         ELSE IF r.threw
         THEN /\ Len(clients) < MaxClients
              /\ clients' = Append(clients, NoOptions)
              /\ hist' = hist
              /\ lastCall' = Call(op, TRUE, r.message, Null)
              /\ IF which = "browser"
                   THEN clientInstance' = NewClient /\ UNCHANGED adminClientInstance
                   ELSE adminClientInstance' = NewClient /\ UNCHANGED clientInstance
         ELSE /\ Len(clients) < MaxClients
              /\ clients' = Append(clients, r.options)
              /\ hist' = [hist EXCEPT ![which].fresh = FALSE]
              /\ lastCall' = Call(op, FALSE, NoMessage, NewClient)
              /\ IF which = "browser"
                   THEN clientInstance' = NewClient /\ UNCHANGED adminClientInstance
                   ELSE adminClientInstance' = NewClient /\ UNCHANGED clientInstance
    /\ UNCHANGED env
    /\ UNCHANGED hookVars
    /\ UNCHANGED <<cookieVars, guardVars, mockVars>>

\* getSupabaseClient (client.ts) and getAdminClient (server.ts): guarded lazy
\* initialisation of the module variable `cached`
GetSingleton(op, which, cached, r) ==
    /\ IF cached # Null
         THEN /\ clients' = clients
              /\ hist' = [hist EXCEPT ![which].fresh = FALSE]
              /\ lastCall' = Call(op, FALSE, NoMessage, cached)
              /\ UNCHANGED <<clientInstance, adminClientInstance>>
         ELSE IF r.threw
         THEN /\ clients' = clients
              /\ hist' = hist
              /\ lastCall' = Call(op, TRUE, r.message, Null)
              /\ UNCHANGED <<clientInstance, adminClientInstance>>
         ELSE /\ Len(clients) < MaxClients
              /\ clients' = Append(clients, r.options)
              /\ hist' = [hist EXCEPT ![which].fresh = FALSE]
              /\ lastCall' = Call(op, FALSE, NoMessage, NewClient)
              /\ IF which = "browser"
                   THEN clientInstance' = NewClient /\ UNCHANGED adminClientInstance
                   ELSE adminClientInstance' = NewClient /\ UNCHANGED clientInstance
    /\ UNCHANGED env
    /\ UNCHANGED hookVars
    /\ UNCHANGED <<cookieVars, guardVars, mockVars>>

getSupabaseClient ==
    GetSingleton("getSupabaseClient", "browser", clientInstance, createBrowserClient(env))

getAdminClient ==
    GetSingleton("getAdminClient", "admin", adminClientInstance, createAdminClient(env))

\* mutant: the reset leaves the cached instance in place
resetClientInstance_KeepsCache ==
    /\ clientInstance' = clientInstance
    /\ hist' = [hist EXCEPT !["browser"] = [fresh |-> TRUE, before |-> clientInstance]]
    /\ lastCall' = Call("resetClientInstance", FALSE, NoMessage, Null)
    /\ UNCHANGED <<env, adminClientInstance, clients>>
    /\ UNCHANGED hookVars
    /\ UNCHANGED <<cookieVars, guardVars, mockVars>>

resetClientInstance ==
    /\ clientInstance' = Null
    /\ hist' = [hist EXCEPT !["browser"] = [fresh |-> TRUE, before |-> clientInstance]]
    /\ lastCall' = Call("resetClientInstance", FALSE, NoMessage, Null)
    /\ UNCHANGED <<env, adminClientInstance, clients>>
    /\ UNCHANGED hookVars
    /\ UNCHANGED <<cookieVars, guardVars, mockVars>>

resetAdminClientInstance ==
    /\ adminClientInstance' = Null
    /\ hist' = [hist EXCEPT !["admin"] = [fresh |-> TRUE, before |-> adminClientInstance]]
    /\ lastCall' = Call("resetAdminClientInstance", FALSE, NoMessage, Null)
    /\ UNCHANGED <<env, clientInstance, clients>>
    /\ UNCHANGED hookVars
    /\ UNCHANGED <<cookieVars, guardVars, mockVars>>

\* a read-only helper: it builds a cookie-scoped client when it gets that far
Helper(op, cookiesOk, r) ==
    /\ IF createServerClient(env, cookiesOk).threw
         THEN clients' = clients
         ELSE /\ Len(clients) < MaxClients
              /\ clients' = Append(clients, ServerOptions)
    /\ lastCall' = Call(op, r.threw, r.message, r.value)
    /\ UNCHANGED <<env, clientInstance, adminClientInstance, hist>>
    /\ UNCHANGED hookVars
    /\ UNCHANGED <<cookieVars, guardVars, mockVars>>

GetCurrentUser ==
    \E cookiesOk \in BOOLEAN, sdk \in SdkResults :
        Helper("getCurrentUser", cookiesOk, getCurrentUser(env, cookiesOk, sdk))

GetCurrentSession ==
    \E cookiesOk \in BOOLEAN, sdk \in SdkResults :
        Helper("getCurrentSession", cookiesOk, getCurrentSession(env, cookiesOk, sdk))

----------------------------------------------------------------------------
(* useAuth.ts: values *)

Sessions == 1..NumSessions
\* Session.user: several sessions (token refreshes) can carry the same user
UserOf(s) == (s + 1) \div 2
\* mutant: the user is never taken from the session
UserOrNull_AlwaysNull(s) == Null

\* `currentSession?.user ?? null`
UserOrNull(s) == IF s = Null THEN Null ELSE UserOf(s)

\* `error` state cell: string | null
NoError == "<null>"

\* Things an SDK call can fail with. AuthError extends Error; a promise can also
\* reject with a value that is not an Error instance.
AuthError == [instanceOfError |-> TRUE, message |-> "Auth session missing!"]
NonError == [instanceOfError |-> FALSE, message |-> "a rejection value that is not an Error"]
NoFailure == [instanceOfError |-> FALSE, message |-> NoMessage]
ReturnedErrors == {AuthError}
RejectedValues == {AuthError, NonError}

\* mutant: the caught error's own message is never used
MessageOr_FallbackOnly(err, fallback) == fallback

\* `err instanceof Error ? err.message : fallback`
MessageOr(err, fallback) == IF err.instanceOfError THEN err.message ELSE fallback

\* what an SDK auth call does: resolves {data: {session}, error: null},
\* resolves {error}, or rejects
Outcome(kind, s, err) == [kind |-> kind, sess |-> s, err |-> err]
NoOutcome == Outcome("none", Null, NoFailure)
FailureOutcomes ==
    {Outcome("error", Null, e) : e \in ReturnedErrors}
        \cup {Outcome("reject", Null, x) : x \in RejectedValues}
SignOutOutcomes == {Outcome("ok", Null, NoFailure)} \cup FailureOutcomes
RefreshOutcomes == {Outcome("ok", s, NoFailure) : s \in 0..NumSessions} \cup FailureOutcomes

AuthEvents == {"SIGNED_IN", "SIGNED_OUT", "TOKEN_REFRESHED"}
\* the sessions the SDK can deliver with an event
EventSessions(event) ==
    IF event = "SIGNED_OUT" THEN {Null} ELSE Sessions

NoFetch == [st |-> "none", sess |-> Null]
\* states of a getInitialSession call in flight: before and after the SDK has
\* read the session
StaleKinds == {<<"pending", Null>>} \cup {<<"read", s>> : s \in 0..NumSessions}
\* The calls in flight, counted by kind: which operation, and whether a failure
\* message has been written to `error` since the call started (history).
CallOps == {"signOut", "refreshSession"}
CallKinds == CallOps \X BOOLEAN
NoCalls == [k \in CallKinds |-> 0]
InFlight(c) == c[<<"signOut", FALSE>>] + c[<<"signOut", TRUE>>]
                 + c[<<"refreshSession", FALSE>>] + c[<<"refreshSession", TRUE>>]
Started(c, op) == [c EXCEPT ![<<op, FALSE>>] = @ + 1]
Finished(c, op, dirty) == [c EXCEPT ![<<op, dirty>>] = @ - 1]

\* What a step of the hook's code was given and did that the state does not
\* keep: `input` is the kind of the SDK outcome it resumed with (or the event a
\* callback was called with), `router` the router calls it made, `threw` and
\* `err` what it raised to its caller.
Last(action, input, router, threw, err) ==
    [action |-> action, input |-> input, router |-> router, threw |-> threw, err |-> err]
Quiet(action) == Last(action, "", <<>>, FALSE, NoFailure)
\* a step that ran no continuation or callback of the hook
Nothing == Quiet("none")

\* every call in flight has now seen a failure message written to `error`
MarkDirty(c) ==
    [k \in CallKinds |-> IF k[2] THEN c[<<k[1], FALSE>>] + c[<<k[1], TRUE>>] ELSE 0]

----------------------------------------------------------------------------
(* useAuth.ts: the mount effect *)

\* mutant: the cleanup does not unsubscribe
Unsubscribe_Leaks == subscribed

\* lines 127-129: the effect's cleanup
Unsubscribe == subscribed \ {subscription}

\* getInitialSession calls of earlier effect runs that are still in flight
\* when the effect runs again: nothing cancels them
Superseded ==
    IF fetch.st \in {"pending", "read"}
    THEN [stale EXCEPT ![<<fetch.st, fetch.sess>>] = @ + 1]
    ELSE stale

\* one run of the effect body, lines 89-125: getInitialSession() runs up to its
\* await, then the callback is registered; `registry` is the SDK's registry
\* of callbacks when the body starts
RunEffect(registry) ==
    /\ effectRuns < MaxEffectRuns
    /\ effectRuns' = effectRuns + 1
    /\ stale' = Superseded
    /\ fetch' = [st |-> "pending", sess |-> Null]
    /\ subscription' = effectRuns + 1
    /\ subscribed' = registry \cup {effectRuns + 1}

MountEffect ==
    /\ mounted /\ effectRuns = 0
    /\ RunEffect(subscribed)
    /\ last' = Nothing
    /\ UNCHANGED <<user, session, loading, error, mounted, calls, extSession>>
    /\ UNCHANGED clientVars
    /\ UNCHANGED <<cookieVars, guardVars, mockVars>>

\* [supabase, router] changed: cleanup of the old run, then a new run
DepsChange ==
    /\ mounted /\ subscription # 0
    /\ RunEffect(Unsubscribe)
    /\ last' = Nothing
    /\ UNCHANGED <<user, session, loading, error, mounted, calls, extSession>>
    /\ UNCHANGED clientVars
    /\ UNCHANGED <<cookieVars, guardVars, mockVars>>

Unmount ==
    /\ mounted /\ subscription # 0
    /\ mounted' = FALSE
    /\ subscribed' = Unsubscribe
    /\ subscription' = 0
    /\ last' = Nothing
    /\ UNCHANGED <<user, session, loading, error, effectRuns, fetch, stale, calls,
                   extSession>>
    /\ UNCHANGED clientVars
    /\ UNCHANGED <<cookieVars, guardVars, mockVars>>

\* supabase.auth.getSession() reads the service's session (SDK side); the
\* promise it returned settles later with what was read
FetchRespond ==
    /\ \/ /\ fetch.st = "pending"
          /\ fetch' = [st |-> "read", sess |-> extSession]
          /\ stale' = stale
       \/ /\ stale[<<"pending", Null>>] > 0
          /\ stale' = [stale EXCEPT ![<<"pending", Null>>] = @ - 1,
                                     ![<<"read", extSession>>] = @ + 1]
          /\ fetch' = fetch
    /\ last' = Nothing
    /\ UNCHANGED <<user, session, loading, error, mounted, effectRuns,
                   subscription, subscribed, calls, extSession>>
    /\ UNCHANGED clientVars
    /\ UNCHANGED <<cookieVars, guardVars, mockVars>>

\* mutant: a failed fetch clears the session it could not read
getInitialSession_ClearsOnFailure(o) ==
    /\ IF o.kind = "ok"
         THEN /\ session' = o.sess
              /\ user' = UserOrNull(o.sess)
              /\ error' = error
              /\ calls' = calls
         ELSE /\ error' = IF o.kind = "error" THEN o.err.message
                          ELSE MessageOr(o.err, "Failed to get session")
              /\ calls' = MarkDirty(calls)
              /\ session' = Null
              /\ user' = Null
    /\ loading' = FALSE
    /\ last' = Last("getInitialSession", o.kind, <<>>, FALSE, o.err)

\* getInitialSession after its await, lines 92-108, for SDK outcome o
getInitialSession(o) ==
    /\ IF o.kind = "ok"
         THEN /\ session' = o.sess
              /\ user' = UserOrNull(o.sess)
              /\ error' = error
              /\ calls' = calls
         ELSE /\ error' = IF o.kind = "error" THEN o.err.message
                          ELSE MessageOr(o.err, "Failed to get session")
              /\ calls' = MarkDirty(calls)
              /\ UNCHANGED <<user, session>>
    /\ loading' = FALSE
    /\ last' = Last("getInitialSession", o.kind, <<>>, FALSE, o.err)

\* the outcomes a getInitialSession call in state k can resume with: the
\* session the SDK read, or a failure (a failed call never got to read one)
FetchOutcomes(k) ==
    IF k[1] = "read" THEN {Outcome("ok", k[2], NoFailure)} ELSE FailureOutcomes

\* the promise settles and getInitialSession resumes: the call of the current
\* effect run, or one left over from an earlier run
FetchApply ==
    /\ \/ /\ fetch.st \in {"pending", "read"}
          /\ \E o \in FetchOutcomes(<<fetch.st, fetch.sess>>) :
                /\ getInitialSession(o)
                /\ fetch' = [st |-> IF o.kind = "ok" THEN "applied" ELSE "failed",
                             sess |-> Null]
          /\ stale' = stale
       \/ \E k \in StaleKinds :
          /\ stale[k] > 0
          /\ \E o \in FetchOutcomes(k) : getInitialSession(o)
          /\ stale' = [stale EXCEPT ![k] = @ - 1]
          /\ fetch' = fetch
    /\ UNCHANGED <<mounted, effectRuns, subscription, subscribed, extSession>>
    /\ UNCHANGED clientVars
    /\ UNCHANGED <<cookieVars, guardVars, mockVars>>

\* mutant: the callback refreshes on every event
CallbackRouter_AnyEvent(event) == [i \in 1..Cardinality(subscribed) |-> "refresh"]

\* the router calls the registered callbacks make for one event, lines 122-124
CallbackRouter(event) ==
    IF event = "SIGNED_IN" \/ event = "SIGNED_OUT"
    THEN [i \in 1..Cardinality(subscribed) |-> "refresh"]
    ELSE <<>>

\* mutant: the callback stores the session and leaves the user as it was
Notify_KeepsUser(event, s) ==
    IF subscribed = {}
    THEN UNCHANGED <<user, session, loading>>
    ELSE /\ session' = s
         /\ user' = user
         /\ loading' = FALSE

\* the SDK delivers (event, s) to every registered callback, lines 116-125
Notify(event, s) ==
    IF subscribed = {}
    THEN UNCHANGED <<user, session, loading>>
    ELSE /\ session' = s
         /\ user' = UserOrNull(s)
         /\ loading' = FALSE

\* the auth service's session changes (or is announced) and the SDK notifies
AuthStateChange ==
    \E event \in AuthEvents :
      \E s \in EventSessions(event) :
        /\ extSession' = s
        /\ Notify(event, s)
        /\ last' = IF subscribed = {} THEN Nothing
                    ELSE Last("AuthStateChange", event, CallbackRouter(event),
                              FALSE, NoFailure)
        /\ UNCHANGED <<error, mounted, effectRuns, subscription, subscribed, fetch, stale,
                       calls>>
        /\ UNCHANGED clientVars
        /\ UNCHANGED <<cookieVars, guardVars, mockVars>>

----------------------------------------------------------------------------
(* useAuth.ts: signOut and refreshSession *)

\* lines 136-140 and 166-173: the synchronous part up to the await
StartCall(op) ==
    /\ mounted /\ effectRuns > 0
    /\ InFlight(calls) < MaxCalls
    /\ loading' = TRUE
    /\ error' = NoError
    /\ calls' = Started(calls, op)
    /\ last' = Nothing
    /\ UNCHANGED <<user, session, mounted, effectRuns, subscription, subscribed,
                   fetch, stale, extSession>>
    /\ UNCHANGED clientVars
    /\ UNCHANGED <<cookieVars, guardVars, mockVars>>

SignOutStart == StartCall("signOut")

RefreshSessionStart == StartCall("refreshSession")

\* mutant: signOut navigates home but does not refresh
signOutRouter_NoRefresh == <<"push /">>

\* lines 151-153
signOutRouter == <<"push /", "refresh">>

\* signOut after its await, lines 140-159, for a call with history flag d and
\* SDK outcome o. On a returned error line 143 stores its message, then the
\* throw runs the catch block, whose line 155 stores again; the value left in
\* `error` is the catch block's.
signOut(d, o) ==
    /\ IF o.kind = "ok"
         THEN /\ user' = Null
              /\ session' = Null
              /\ error' = error
              /\ calls' = Finished(calls, "signOut", d)
              /\ last' = Last("signOutDone", o.kind, signOutRouter, FALSE, NoFailure)
         ELSE /\ error' = MessageOr(o.err, "Failed to sign out")
              /\ calls' = MarkDirty(Finished(calls, "signOut", d))
              /\ last' = Last("signOutDone", o.kind, <<>>, TRUE, o.err)
              /\ UNCHANGED <<user, session>>
    /\ loading' = FALSE

\* mutant: refreshSession stores the new session but not its user
refreshSession_ForgetsUser(d, o) ==
    /\ IF o.kind = "ok"
         THEN /\ session' = o.sess
              /\ user' = user
              /\ error' = error
              /\ calls' = Finished(calls, "refreshSession", d)
              /\ last' = Last("refreshSessionDone", o.kind, <<>>, FALSE, NoFailure)
         ELSE /\ error' = MessageOr(o.err, "Failed to refresh session")
              /\ calls' = MarkDirty(Finished(calls, "refreshSession", d))
              /\ last' = Last("refreshSessionDone", o.kind, <<>>, TRUE, o.err)
              /\ UNCHANGED <<user, session>>
    /\ loading' = FALSE

\* refreshSession after its await, lines 170-187
refreshSession(d, o) ==
    /\ IF o.kind = "ok"
         THEN /\ session' = o.sess
              /\ user' = UserOrNull(o.sess)
              /\ error' = error
              /\ calls' = Finished(calls, "refreshSession", d)
              /\ last' = Last("refreshSessionDone", o.kind, <<>>, FALSE, NoFailure)
         ELSE /\ error' = MessageOr(o.err, "Failed to refresh session")
              /\ calls' = MarkDirty(Finished(calls, "refreshSession", d))
              /\ last' = Last("refreshSessionDone", o.kind, <<>>, TRUE, o.err)
              /\ UNCHANGED <<user, session>>
    /\ loading' = FALSE

\* supabase.auth.signOut() settles with outcome o and signOut resumes. The
\* service's session is gone once the SDK reports success; the notifications
\* the SDK sends about it are AuthStateChange steps.
SignOutDone ==
    \E d \in BOOLEAN :
        /\ calls[<<"signOut", d>>] > 0
        /\ \E o \in SignOutOutcomes :
              /\ signOut(d, o)
              /\ extSession' = IF o.kind = "ok" THEN Null ELSE extSession
        /\ UNCHANGED <<mounted, effectRuns, subscription, subscribed, fetch, stale>>
        /\ UNCHANGED clientVars
        /\ UNCHANGED <<cookieVars, guardVars, mockVars>>

\* supabase.auth.refreshSession() settles with outcome o and refreshSession resumes
RefreshSessionDone ==
    \E d \in BOOLEAN :
        /\ calls[<<"refreshSession", d>>] > 0
        /\ \E o \in RefreshOutcomes :
              /\ refreshSession(d, o)
              /\ extSession' = IF o.kind = "ok" THEN o.sess ELSE extSession
        /\ UNCHANGED <<mounted, effectRuns, subscription, subscribed, fetch, stale>>
        /\ UNCHANGED clientVars
        /\ UNCHANGED <<cookieVars, guardVars, mockVars>>

----------------------------------------------------------------------------
(* server.ts: the cookie callbacks createServerClient hands to the SDK *)

\* cookies the SDK asks to set: a token, its deletion, and a second token
CookieChoices ==
    { [name |-> "sb-access-token", value |-> "access", options |-> "Path=/; Max-Age=3600"],
      [name |-> "sb-access-token", value |-> "", options |-> "Path=/; Max-Age=0"],
      [name |-> "sb-refresh-token", value |-> "refresh", options |-> "Path=/; Max-Age=3600"] }
CookieNames == {c.name : c \in CookieChoices}
CookieLists == UNION {[1..n -> CookieChoices] : n \in 0..MaxCookies}

\* a name the store holds nothing for
NoCookie == [value |-> "<unset>", options |-> "<unset>"]
EmptyCookieStore == [n \in CookieNames |-> NoCookie]

\* cookieStore.set(name, value, options)
CookieSet(store, c) ==
    [store EXCEPT ![c.name] = [value |-> c.value, options |-> c.options]]

\* what `await cookies()` can yield: the cookies the request came with
RequestStores == {EmptyCookieStore} \cup {CookieSet(EmptyCookieStore, c) : c \in CookieChoices}

\* the store after the writes of `written`, first to last
RECURSIVE SetEach(_, _)
SetEach(store, written) ==
    IF written = <<>> THEN store
    ELSE SetEach(CookieSet(store, Head(written)), Tail(written))

\* cookiesToSet.forEach(... cookieStore.set(...)): the writes run in list order;
\* failAt = 0 is a store that accepts every write, failAt = k a store whose
\* k-th write throws (a Server Component's store throws on the first)
forEachSet(cookiesToSet, store, failAt) ==
    LET written == IF failAt = 0 THEN cookiesToSet
                   ELSE SubSeq(cookiesToSet, 1, failAt - 1)
    IN  [written |-> written, store |-> SetEach(store, written), threw |-> failAt # 0]

\* mutant: setAll without the try/catch
setAll_Propagates(cookiesToSet, store, failAt) ==
    forEachSet(cookiesToSet, store, failAt)

\* setAll: the forEach inside try { } catch { }
setAll(cookiesToSet, store, failAt) ==
    [forEachSet(cookiesToSet, store, failAt) EXCEPT !.threw = FALSE]

CookieCall(op, requested, failAt, written, returned, threw) ==
    [op |-> op, requested |-> requested, failAt |-> failAt, written |-> written,
     returned |-> returned, threw |-> threw]

\* the SDK calls cookies.setAll(cookiesToSet)
SetAll ==
    \E cookiesToSet \in CookieLists :
      \E failAt \in 0..Len(cookiesToSet) :
        LET r == setAll(cookiesToSet, cookieStore, failAt)
        IN  /\ cookieStore' = r.store
            /\ lastCookies' = CookieCall("setAll", cookiesToSet, failAt, r.written,
                                         EmptyCookieStore, r.threw)
            /\ UNCHANGED <<clientVars, hookVars, guardVars, mockVars>>

\* the SDK calls cookies.getAll()
GetAll ==
    /\ lastCookies' = CookieCall("getAll", <<>>, 0, <<>>, cookieStore, FALSE)
    /\ UNCHANGED <<cookieStore, clientVars, hookVars, guardVars, mockVars>>

\* a new request: `await cookies()` yields that request's store
NewRequest ==
    /\ cookieStore' \in RequestStores
    /\ lastCookies' = CookieCall("cookies", <<>>, 0, <<>>, EmptyCookieStore, FALSE)
    /\ UNCHANGED <<clientVars, hookVars, guardVars, mockVars>>

----------------------------------------------------------------------------
(* useAuth.ts: useRequireAuth *)

\* window.location.pathname, character by character: it starts with "/" and
\* holds separators, unreserved characters and the "%" of an escaped one
PathChars == {"/", "a", "%"}
Paths == {p \in UNION {[1..n -> PathChars] : n \in 1..MaxPathLen} : p[1] = "/"}

\* encodeURIComponent: unreserved characters stay, every other one is escaped
EncodeChar(c) ==
    CASE c = "/" -> "%2F"
      [] c = "%" -> "%25"
      [] OTHER -> c
encodeURIComponent(str) == [i \in 1..Len(str) |-> EncodeChar(str[i])]

\* the redirectTo parameter: its default and another sign-in page
RedirectTargets == {"/login", "/auth/signin"}

\* `${redirectTo}?redirectTo=${encodeURIComponent(currentPath)}`
RedirectUrl(redirectTo, currentPath) ==
    <<redirectTo, "?redirectTo=">> \o encodeURIComponent(currentPath)

NoPush == <<>>
NoDeps == <<>>

\* mutant: the effect does not wait for loading to end
requireAuthEffect_IgnoresLoading(u, l, redirectTo, currentPath) ==
    IF u = Null THEN <<RedirectUrl(redirectTo, currentPath)>> ELSE NoPush

\* the body of the effect, lines 226-230: the router.push calls it makes
requireAuthEffect(u, l, redirectTo, currentPath) ==
    IF ~l /\ u = Null THEN <<RedirectUrl(redirectTo, currentPath)>> ELSE NoPush

\* one render of useRequireAuth(redirectTo): useAuth returns user u and
\* loading l; after the commit React runs the effect when this is the first
\* render or one of [user, loading, router, redirectTo] differs from the
\* previous render's (the router object is stable)
RenderRequireAuth ==
    \E u \in {UserOrNull(s) : s \in 0..NumSessions}, l \in BOOLEAN,
       redirectTo \in RedirectTargets :
        /\ user' = u
        /\ loading' = l
        /\ guardDeps' = <<u, l, "router", redirectTo>>
        /\ pushed' = IF guardDeps' # guardDeps
                       THEN requireAuthEffect(u, l, redirectTo, pathname)
                       ELSE NoPush
        /\ UNCHANGED <<session, error, mounted, effectRuns, subscription, subscribed,
                       fetch, stale, calls, extSession, last, pathname>>
        /\ UNCHANGED <<clientVars, cookieVars, mockVars>>

\* the location changes (a navigation completes); nothing re-renders the hook
Navigate ==
    /\ \E p \in Paths : p # pathname /\ pathname' = p
    /\ pushed' = NoPush
    /\ UNCHANGED <<guardDeps, hookVars, clientVars, cookieVars, mockVars>>

----------------------------------------------------------------------------
(* supabaseMock.ts: createMockSupabaseClient *)

MockNames == {"mockFrom", "mockInsert", "mockSelect", "mockEq", "mockOrder"}
MemberNames == {"from", "insert", "select", "eq", "order"}

\* JS values: an object literal whose members are jest.fn mocks (pairs of
\* member name and mock), the promise of { data: [], error: null }, that value
\* itself, undefined, and a thrown TypeError
Obj(members) == [kind |-> "object", members |-> members]
ResolvedPromise == [kind |-> "promise", members |-> {}]
EmptyResult == [kind |-> "{ data: [], error: null }", members |-> {}]
JsUndefined == [kind |-> "undefined", members |-> {}]
TypeErrorThrown == [kind |-> "TypeError", members |-> {}]

\* the object literals of lines 8-20
mockClient == Obj({<<"from", "mockFrom">>})
FromObject == Obj({<<"select", "mockSelect">>, <<"insert", "mockInsert">>})
SelectObject == Obj({<<"eq", "mockEq">>, <<"order", "mockOrder">>})
EqObject == Obj({<<"order", "mockOrder">>})
InsertObject == Obj({<<"select", "mockSelect">>})

\* jest.fn(): returns undefined until configured, never called
JestFn == [returns |-> JsUndefined, calls |-> 0]

\* mockReturnValue(v) and mockResolvedValue(v) both replace what the mock
\* returns from then on (the latter with a promise of v) and return the mock
MockReturnValue(ms, mock, v) == [ms EXCEPT ![mock].returns = v]

\* the configuration calls of lines 9-19 in the order JS evaluates them: the
\* arguments of a call before the call, the properties of a literal in
\* source order
ConfigurationCalls ==
    << [mock |-> "mockOrder", returns |-> ResolvedPromise],
       [mock |-> "mockEq", returns |-> EqObject],
       [mock |-> "mockOrder", returns |-> ResolvedPromise],
       [mock |-> "mockSelect", returns |-> SelectObject],
       [mock |-> "mockSelect", returns |-> ResolvedPromise],
       [mock |-> "mockInsert", returns |-> InsertObject],
       [mock |-> "mockFrom", returns |-> FromObject] >>

RECURSIVE Configure(_, _)
Configure(ms, configCalls) ==
    IF configCalls = <<>> THEN ms
    ELSE Configure(MockReturnValue(ms, Head(configCalls).mock, Head(configCalls).returns),
                   Tail(configCalls))

createMockSupabaseClient == Configure([m \in MockNames |-> JestFn], ConfigurationCalls)

\* the expression a test is evaluating: the members called so far, starting
\* from mockClient, and the value reached
Expression(path, value) == [path |-> path, value |-> value]

\* the test calls a member the value has: the mock behind it records the call
\* and returns what it was last configured to return (arguments are ignored)
CallMember ==
    /\ \E member \in receiver.value.members :
          /\ mocks[member[2]].calls < MaxMockCalls
          /\ mocks' = [mocks EXCEPT ![member[2]].calls = @ + 1]
          /\ receiver' = Expression(Append(receiver.path, member[1]),
                                    mocks[member[2]].returns)
    /\ UNCHANGED <<clientVars, hookVars, cookieVars, guardVars>>

\* the test calls a member the value does not have: `x.m is not a function`
CallMissing ==
    /\ receiver.value.kind # "TypeError"
    /\ \E m \in MemberNames :
          /\ m \notin {member[1] : member \in receiver.value.members}
          /\ receiver' = Expression(Append(receiver.path, m), TypeErrorThrown)
    /\ UNCHANGED <<mocks, clientVars, hookVars, cookieVars, guardVars>>

\* the test awaits the promise the chain ended in
Await ==
    /\ receiver.value = ResolvedPromise
    /\ receiver' = Expression(receiver.path, EmptyResult)
    /\ UNCHANGED <<mocks, clientVars, hookVars, cookieVars, guardVars>>

\* the test starts another chain on mockClient
NewChain ==
    /\ receiver.path # <<>>
    /\ receiver' = Expression(<<>>, mockClient)
    /\ UNCHANGED <<mocks, clientVars, hookVars, cookieVars, guardVars>>

----------------------------------------------------------------------------
(* Specifications *)

\* module load: both singletons empty, no SDK client constructed
InitClientVars ==
    /\ env \in [EnvNames -> EnvValues]
    /\ clientInstance = Null
    /\ adminClientInstance = Null
    /\ clients = <<>>
    /\ hist = [w \in {"browser", "admin"} |-> [fresh |-> TRUE, before |-> Null]]
    /\ lastCall = Call("load", FALSE, NoMessage, Null)

\* first render of the hook, lines 83-86, before the effect has run
InitHookVars ==
    /\ user = Null
    /\ session = Null
    /\ loading = TRUE
    /\ error = NoError
    /\ mounted = TRUE
    /\ effectRuns = 0
    /\ subscription = 0
    /\ subscribed = {}
    /\ fetch = NoFetch
    /\ stale = [k \in StaleKinds |-> 0]
    /\ calls = NoCalls
    /\ last = Nothing

\* before the first render of a component that calls useRequireAuth
InitGuardVars ==
    /\ pathname = <<"/">>
    /\ guardDeps = NoDeps
    /\ pushed = NoPush

\* what createMockSupabaseClient() returns, before the test calls anything
InitMockVars ==
    /\ mocks = createMockSupabaseClient
    /\ receiver = Expression(<<>>, mockClient)

\* a request with no cookie, before any callback
InitCookieVars ==
    /\ cookieStore = EmptyCookieStore
    /\ lastCookies = CookieCall("cookies", <<>>, 0, <<>>, EmptyCookieStore, FALSE)

InitClients ==
    /\ InitClientVars /\ InitHookVars /\ extSession = Null
    /\ InitCookieVars /\ InitGuardVars /\ InitMockVars

NextClients ==
    \/ SetEnv
    \/ CreateBrowserClient
    \/ CreateAdminClient
    \/ CreateServerClient
    \/ getSupabaseClient
    \/ resetClientInstance
    \/ getAdminClient
    \/ resetAdminClientInstance
    \/ GetCurrentUser
    \/ GetCurrentSession

SpecClients == InitClients /\ [][NextClients]_vars

InitHook ==
    /\ InitClientVars /\ env = [n \in EnvNames |-> "value"]
    /\ InitHookVars
    /\ extSession \in 0..NumSessions
    /\ InitCookieVars /\ InitGuardVars /\ InitMockVars

NextHook ==
    \/ MountEffect
    \/ DepsChange
    \/ Unmount
    \/ FetchRespond
    \/ FetchApply
    \/ AuthStateChange
    \/ SignOutStart
    \/ RefreshSessionStart
    \/ SignOutDone
    \/ RefreshSessionDone

SpecHook == InitHook /\ [][NextHook]_vars

\* a component that calls useRequireAuth, rendered again and again
NextRequireAuth ==
    \/ RenderRequireAuth
    \/ Navigate

SpecRequireAuth == InitHook /\ [][NextRequireAuth]_vars

\* a test that uses the client createMockSupabaseClient() returned
NextMock ==
    \/ CallMember
    \/ CallMissing
    \/ Await
    \/ NewChain

InitMock == InitClients /\ env = [n \in EnvNames |-> "value"]

SpecMock == InitMock /\ [][NextMock]_vars

\* one request served through the cookie-scoped client
NextCookies ==
    \/ NewRequest
    \/ SetAll
    \/ GetAll

InitCookies == InitClients /\ env = [n \in EnvNames |-> "value"]

SpecCookies == InitCookies /\ [][NextCookies]_vars

----------------------------------------------------------------------------
(* Properties of the client factories (SpecClients) *)

\* a variable that is not set, or set to the empty string
Missing(n) == env[n] = Undefined \/ env[n] = ""

\* a successful get of singleton w, whose module variable goes from `before`
\* to `after`: the first get since start or reset constructs one new client,
\* different from the one cached before the reset; any other get returns the
\* cached one and constructs nothing
SingletonGet(w, before, after) ==
    IF hist[w].fresh
    THEN /\ Len(clients') = Len(clients) + 1
         /\ lastCall'.value \notin 1..Len(clients)
         /\ lastCall'.value # hist[w].before
         /\ after = lastCall'.value
    ELSE /\ clients' = clients
         /\ before # Null
         /\ lastCall'.value = before
         /\ after = before

\* C1: over any sequence of get and reset calls, the first successful get after
\* start or after a reset constructs exactly one new instance, different from
\* the one cached before the reset; every further get before the next reset
\* returns that same instance and constructs nothing; a reset empties the
\* cache; each context caches at most one instance, an SDK client of its kind.
C1_Singleton ==
    /\ [](/\ clientInstance \in 0..Len(clients)
          /\ adminClientInstance \in 0..Len(clients)
          /\ clientInstance # Null => clients[clientInstance].kind = "browser"
          /\ adminClientInstance # Null => clients[adminClientInstance].kind = "admin")
    /\ [][/\ (lastCall'.op = "getSupabaseClient" /\ ~lastCall'.threw)
                => SingletonGet("browser", clientInstance, clientInstance')
          /\ (lastCall'.op = "getAdminClient" /\ ~lastCall'.threw)
                => SingletonGet("admin", adminClientInstance, adminClientInstance')
          /\ lastCall'.op = "resetClientInstance" => clientInstance' = Null
          /\ lastCall'.op = "resetAdminClientInstance" => adminClientInstance' = Null
         ]_vars

\* C1 witness: get, reset, get has happened on the browser singleton and the
\* second get cached a different instance
C1_Witness ==
    /\ lastCall.op = "getSupabaseClient" /\ ~lastCall.threw
    /\ hist["browser"].before # Null
    /\ clientInstance # Null
    /\ clientInstance # hist["browser"].before

\* C2: each factory throws its configuration error, and constructs no SDK
\* client, exactly when one of its two required variables is absent or empty.
C2_ConfigError ==
    [][/\ lastCall'.op = "createBrowserClient" =>
            /\ (lastCall'.threw /\ lastCall'.message = BrowserConfigError)
                 <=> (Missing("NEXT_PUBLIC_SUPABASE_URL")
                        \/ Missing("NEXT_PUBLIC_SUPABASE_ANON_KEY"))
            /\ lastCall'.threw => clients' = clients
       /\ lastCall'.op = "createServerClient" =>
            /\ (lastCall'.threw /\ lastCall'.message = BrowserConfigError)
                 <=> (Missing("NEXT_PUBLIC_SUPABASE_URL")
                        \/ Missing("NEXT_PUBLIC_SUPABASE_ANON_KEY"))
            /\ lastCall'.threw => clients' = clients
       /\ lastCall'.op = "createAdminClient" =>
            /\ (lastCall'.threw /\ lastCall'.message = AdminConfigError)
                 <=> (Missing("NEXT_PUBLIC_SUPABASE_URL")
                        \/ Missing("SUPABASE_SERVICE_ROLE_KEY"))
            /\ lastCall'.threw => clients' = clients
      ]_vars

\* C2 witness: createAdminClient has thrown because the service key is set to
\* the empty string while the URL is present
C2_Witness ==
    /\ lastCall.op = "createAdminClient"
    /\ lastCall.threw /\ lastCall.message = AdminConfigError
    /\ env["NEXT_PUBLIC_SUPABASE_URL"] = "value"
    /\ env["SUPABASE_SERVICE_ROLE_KEY"] = ""
    /\ clients = <<>>

\* C7 (as claimed): getCurrentUser and getCurrentSession never throw; whatever
\* fails while they run, they return null.
C7_NeverThrows ==
    lastCall.op \in {"getCurrentUser", "getCurrentSession"} => ~lastCall.threw

----------------------------------------------------------------------------
(* Properties of the useAuth hook (SpecHook) *)

\* the user a session carries, null for no session
UserIn(s) == IF s = Null THEN Null ELSE UserOf(s)

NoStale == \A k \in StaleKinds : stale[k] = 0

\* C3 (as claimed): when signOut completes after a successful SDK sign-out,
\* user and session are null, loading is false, error is null, router.push('/')
\* then router.refresh() have been called, and nothing is thrown.
C3_SignOutSuccess ==
    (last.action = "signOutDone" /\ last.input = "ok") =>
        /\ user = Null /\ session = Null
        /\ ~loading
        /\ error = NoError
        /\ last.router = <<"push /", "refresh">>
        /\ ~last.threw

\* C3 (amended): as claimed, except that error is null only if no failure of
\* the initial fetch or of an overlapping signOut / refreshSession has stored
\* its message since this signOut started; signOut's success path itself never
\* writes error.
C3_SignOutSuccessAmended ==
    [][(last'.action = "signOutDone" /\ last'.input = "ok") =>
          /\ user' = Null /\ session' = Null
          /\ ~loading'
          /\ last'.router = <<"push /", "refresh">>
          /\ ~last'.threw
          /\ error' = error
          /\ calls'[<<"signOut", FALSE>>] < calls[<<"signOut", FALSE>>] => error' = NoError
      ]_vars

\* C3 witness: a signOut has completed successfully and left error null
C3_Witness ==
    /\ last.action = "signOutDone" /\ last.input = "ok"
    /\ last.router = <<"push /", "refresh">>
    /\ user = Null /\ session = Null /\ ~loading /\ error = NoError

\* C4 (as claimed): when signOut completes after a failed SDK sign-out (an
\* error returned, or a rejection), error holds the failure's message, loading
\* is false, the failure is re-raised and the router is not called.
C4_SignOutFailure ==
    (last.action = "signOutDone" /\ last.input # "ok") =>
        /\ error = last.err.message
        /\ ~loading
        /\ last.threw /\ last.err # NoFailure
        /\ last.router = <<>>

\* C4 (amended): as claimed, except that error holds the failure's message
\* only when the failure is an Error instance; for a rejection with any other
\* value error holds the fixed text 'Failed to sign out'.
C4_SignOutFailureAmended ==
    (last.action = "signOutDone" /\ last.input # "ok") =>
        /\ error = IF last.err.instanceOfError THEN last.err.message
                   ELSE "Failed to sign out"
        /\ ~loading
        /\ last.threw /\ last.err # NoFailure
        /\ last.router = <<>>

\* C4 witness: a signOut has failed with a rejection that is not an Error
C4_Witness ==
    /\ last.action = "signOutDone" /\ last.input = "reject"
    /\ ~last.err.instanceOfError
    /\ last.threw
    /\ error = "Failed to sign out"

\* the getInitialSession call that resumes in this step had read session s
Fetched(s) ==
    \/ fetch.st = "read" /\ fetch.sess = s /\ fetch'.st = "applied"
    \/ stale[<<"read", s>>] > stale'[<<"read", s>>]

\* C5: before the effect runs the hook has loading=true, user=null,
\* session=null; a successful initial fetch stores the fetched session, that
\* session's user (null without a session) and loading=false; loading goes from
\* false to true only in a step that starts a signOut or refreshSession call.
C5_InitialFetch ==
    /\ [](effectRuns = 0 => loading /\ user = Null /\ session = Null)
    /\ [][/\ (last'.action = "getInitialSession" /\ last'.input = "ok") =>
                \E s \in 0..NumSessions :
                    /\ Fetched(s)
                    /\ session' = s
                    /\ user' = UserIn(s)
                    /\ ~loading'
          /\ (~loading /\ loading') => InFlight(calls') = InFlight(calls) + 1
         ]_vars

\* C5 witness: the initial fetch has succeeded with a session
C5_Witness ==
    /\ last.action = "getInitialSession" /\ last.input = "ok"
    /\ fetch.st = "applied"
    /\ session # Null /\ user = UserIn(session) /\ ~loading

\* C6 (as claimed): once the initial fetch has been applied and no write is
\* pending, the hook mirrors the service's current session, whatever the order
\* in which the fetch and the notifications were applied.
C6_Converges ==
    (/\ mounted /\ subscribed # {}
     /\ fetch.st = "applied" /\ NoStale
     /\ InFlight(calls) = 0)
        => session = extSession /\ user = UserIn(extSession)

\* C8: a notification delivered to the subscribed hook stores the notified
\* session, its user (null without one) and loading=false, and calls
\* router.refresh() once exactly when the event is SIGNED_IN or SIGNED_OUT.
C8_Notification ==
    last.action = "AuthStateChange" =>
        /\ session = extSession
        /\ user = UserIn(extSession)
        /\ ~loading
        /\ last.router = IF last.input \in {"SIGNED_IN", "SIGNED_OUT"}
                         THEN <<"refresh">> ELSE <<>>

\* C8 witness: a TOKEN_REFRESHED notification has been delivered
C8_Witness ==
    /\ last.action = "AuthStateChange" /\ last.input = "TOKEN_REFRESHED"
    /\ session # Null /\ session = extSession
    /\ last.router = <<>>

\* the steps in which code of the hook runs after an await
Continuations == {"getInitialSession", "signOutDone", "refreshSessionDone"}

\* C9: the only callback registered is the one of the current effect run, so
\* at most one is registered and none after unmount; after unmount no callback
\* runs, and a change of the service's session changes no hook state.
C9_Unsubscribes ==
    /\ [](/\ subscribed \subseteq {subscription}
          /\ Cardinality(subscribed) <= 1
          /\ ~mounted => subscribed = {})
    /\ [][~mounted' =>
            /\ last'.action # "AuthStateChange"
            /\ last'.action \notin Continuations
                 => UNCHANGED <<user, session, loading, error>>
         ]_vars

\* C9 witness: the effect was cleaned up for a dependency change and then for
\* the unmount, and the service holds a session the unmounted hook does not
C9_Witness ==
    /\ ~mounted /\ effectRuns > 1
    /\ subscribed = {}
    /\ fetch.st = "applied" /\ NoStale /\ InFlight(calls) = 0
    /\ session = Null /\ extSession # Null

\* C10 (as claimed), the completion: on success session is the refreshed
\* session, user its user, loading false, nothing thrown; on failure error
\* holds the failure's message, loading is false and the failure is re-raised.
C10_RefreshSession ==
    last.action = "refreshSessionDone" =>
        /\ ~loading
        /\ IF last.input = "ok"
             THEN /\ session = extSession
                  /\ user = UserIn(extSession)
                  /\ ~last.threw
             ELSE /\ error = last.err.message
                  /\ last.threw /\ last.err # NoFailure

\* C10 (amended): refreshSession sets loading=true and error=null when it
\* starts; on success session is the refreshed session, user its user, loading
\* false, nothing thrown; on failure loading is false, the failure is re-raised
\* and error holds its message if it is an Error instance, else the fixed text
\* 'Failed to refresh session'.
C10_RefreshSessionAmended ==
    /\ [](last.action = "refreshSessionDone" =>
            /\ ~loading
            /\ IF last.input = "ok"
                 THEN /\ session = extSession
                      /\ user = UserIn(extSession)
                      /\ ~last.threw
                 ELSE /\ error = IF last.err.instanceOfError THEN last.err.message
                                 ELSE "Failed to refresh session"
                      /\ last.threw /\ last.err # NoFailure)
    /\ [][calls'[<<"refreshSession", FALSE>>] > calls[<<"refreshSession", FALSE>>]
            => loading' /\ error' = NoError]_vars

\* C10 witness: a refreshSession has completed with a new session
C10_Witness ==
    /\ last.action = "refreshSessionDone" /\ last.input = "ok"
    /\ session # Null /\ user = UserIn(session) /\ ~loading

----------------------------------------------------------------------------
(* Properties of the constructed clients (SpecClients) *)

\* the SDK client a successful call of one of `ops` has just returned
Returned(ops) == lastCall.op \in ops /\ ~lastCall.threw

Stateless(c) == ~clients[c].persistSession /\ ~clients[c].autoRefreshToken

\* C12: every elevated client, whether createAdminClient returned it,
\* getAdminClient returned it or the module variable caches it, was constructed
\* with persistSession = false and autoRefreshToken = false; every
\* cookie-scoped client, whether createServerClient returned it or a helper
\* built it, was constructed with persistSession = true.
C12_ClientOptions ==
    /\ Returned({"createAdminClient", "getAdminClient"}) => Stateless(lastCall.value)
    /\ adminClientInstance # Null => Stateless(adminClientInstance)
    /\ Returned({"createServerClient"}) => clients[lastCall.value].persistSession
    /\ \A c \in 1..Len(clients) :
          /\ clients[c].kind = "admin" => Stateless(c)
          /\ clients[c].kind = "server" => clients[c].persistSession

\* C12 witness: getAdminClient has just constructed and cached the elevated
\* client, next to a cookie-scoped client constructed before it
C12_Witness ==
    /\ Returned({"getAdminClient"})
    /\ adminClientInstance = lastCall.value
    /\ lastCall.value = Len(clients)
    /\ Stateless(adminClientInstance)
    /\ \E c \in 1..Len(clients) : clients[c].kind = "server" /\ clients[c].persistSession

\* a get of the singleton cached in `before`/`after`, whose factory needs the
\* variables n1 and n2: what a failed get, a get on a filled cache and a get
\* on an empty cache under a valid configuration do to the cache
GetAndCache(kind, before, after, n1, n2) ==
    /\ lastCall'.threw =>
          /\ before = Null /\ after = Null
          /\ Missing(n1) \/ Missing(n2)
          /\ clients' = clients
          /\ clientInstance' = clientInstance
          /\ adminClientInstance' = adminClientInstance
    /\ before # Null => ~lastCall'.threw /\ after = before
    /\ (before = Null /\ ~Missing(n1) /\ ~Missing(n2)) =>
          /\ ~lastCall'.threw
          /\ clients' = Append(clients, clients'[Len(clients')])
          /\ after = Len(clients')
          /\ clients'[after].kind = kind

\* C18: a get that throws the configuration error leaves both caches and the
\* set of constructed clients as they were, the cache it read being empty; a
\* get on a filled cache never fails and never clears it; a get on an empty
\* cache under a valid configuration, whatever failed before, constructs one
\* client of its kind and caches it.
C18_FailedGetKeepsCache ==
    [][/\ lastCall'.op = "getSupabaseClient" =>
            GetAndCache("browser", clientInstance, clientInstance',
                        "NEXT_PUBLIC_SUPABASE_URL", "NEXT_PUBLIC_SUPABASE_ANON_KEY")
       /\ lastCall'.op = "getAdminClient" =>
            GetAndCache("admin", adminClientInstance, adminClientInstance',
                        "NEXT_PUBLIC_SUPABASE_URL", "SUPABASE_SERVICE_ROLE_KEY")
      ]_vars

\* C18 witness: getSupabaseClient has just thrown the configuration error; its
\* cache is empty and the elevated client cached earlier is still cached
C18_Witness ==
    /\ lastCall.op = "getSupabaseClient"
    /\ lastCall.threw /\ lastCall.message = BrowserConfigError
    /\ clientInstance = Null
    /\ adminClientInstance # Null
    /\ clients[adminClientInstance].kind = "admin"

----------------------------------------------------------------------------
(* Properties of the cookie callbacks (SpecCookies) *)

\* the last cookie of `list` named n, or NoCookie when none is
RECURSIVE LastNamed(_, _)
LastNamed(list, n) ==
    IF list = <<>> THEN NoCookie
    ELSE IF list[Len(list)].name = n
         THEN [value |-> list[Len(list)].value, options |-> list[Len(list)].options]
         ELSE LastNamed(SubSeq(list, 1, Len(list) - 1), n)

\* C11: setAll is best-effort. Whatever list it is given and whichever write
\* of the cookie store fails, setAll returns normally; when no write fails the
\* writes made are exactly the cookies of the list, in list order, each with
\* its name, value and options, so the store ends up holding, for every name
\* in the list, the value and options of the last cookie of that name.
C11_SetAllBestEffort ==
    lastCookies.op = "setAll"
        => /\ ~lastCookies.threw
           /\ lastCookies.failAt = 0
                 => /\ lastCookies.written = lastCookies.requested
                    /\ \A i \in 1..Len(lastCookies.requested) :
                          LET n == lastCookies.requested[i].name
                          IN  cookieStore[n] = LastNamed(lastCookies.requested, n)

\* C11 witness: a two-cookie list whose second write failed: the first cookie
\* is in the store and the call returned normally
C11_Witness ==
    /\ lastCookies.op = "setAll"
    /\ Len(lastCookies.requested) >= 2
    /\ lastCookies.failAt = 2
    /\ Len(lastCookies.written) = 1
    /\ cookieStore[lastCookies.requested[1].name].value = lastCookies.requested[1].value
    /\ ~lastCookies.threw

----------------------------------------------------------------------------
(* Further properties of the hook (SpecHook) *)

\* C13 (as claimed): when the initial session fetch fails (the SDK returns an
\* error, or the call rejects), nothing is thrown, error holds the failure's
\* message and loading is false.
C13_FetchFailure ==
    (last.action = "getInitialSession" /\ last.input # "ok") =>
        /\ ~last.threw
        /\ error = last.err.message
        /\ ~loading

\* C13 (amended): as claimed, except that error holds the failure's message
\* only when the failure is an Error instance; for a rejection with any other
\* value error holds the fixed text 'Failed to get session'. The failed fetch
\* leaves user and session as they were.
C13_FetchFailureAmended ==
    /\ []((last.action = "getInitialSession" /\ last.input # "ok") =>
            /\ ~last.threw
            /\ error = IF last.err.instanceOfError THEN last.err.message
                       ELSE "Failed to get session"
            /\ ~loading)
    /\ [][(last'.action = "getInitialSession" /\ last'.input # "ok")
             => UNCHANGED <<user, session>>]_vars

\* C13 witness: the fetch has failed with a rejection that is not an Error,
\* after a notification had stored a session, which is still there
C13_Witness ==
    /\ last.action = "getInitialSession" /\ last.input = "reject"
    /\ ~last.err.instanceOfError
    /\ fetch.st = "failed"
    /\ error = "Failed to get session"
    /\ ~loading
    /\ session # Null /\ user = UserIn(session)

\* C15 (as claimed): loading is true whenever a signOut or refreshSession call
\* has started and not yet completed; no notification, initial fetch or
\* overlapping call that completes sets it to false in the meantime.
C15_LoadingWhileInFlight ==
    InFlight(calls) > 0 => loading

\* C16: user and session are consistent in every state, each callback
\* continuation taken as one step: user is null exactly when session is null,
\* and otherwise user is the user carried by session.
C16_UserMatchesSession ==
    /\ user = Null <=> session = Null
    /\ session # Null => user = UserOf(session)

\* C16 witness: a refreshSession has completed with a session while another
\* call is still in flight and the initial fetch has not resumed yet
C16_Witness ==
    /\ last.action = "refreshSessionDone" /\ last.input = "ok"
    /\ InFlight(calls) > 0
    /\ fetch.st \in {"pending", "read"}
    /\ session # Null /\ user = UserOf(session)

\* a getInitialSession call resumes in this step whose effect run has been
\* cleaned up: the component is unmounted, or a later run has superseded it
ResumesAfterCleanup ==
    /\ last'.action = "getInitialSession"
    /\ ~mounted \/ fetch' = fetch

\* C17 (as claimed): once the mount effect has been cleaned up, nothing it
\* started writes to user, session, loading or error; a getInitialSession call
\* still pending at the cleanup updates nothing when it completes.
C17_NoWriteAfterCleanup ==
    [][ResumesAfterCleanup => UNCHANGED <<user, session, loading, error>>]_vars

----------------------------------------------------------------------------
(* Properties of useRequireAuth (SpecRequireAuth) *)

\* decodeURIComponent on the escapes encodeURIComponent produces
DecodeChar(c) ==
    CASE c = "%2F" -> "/"
      [] c = "%25" -> "%"
      [] OTHER -> c

\* url is `<target>?redirectTo=<query>` where the query decodes to path and
\* holds no separator of its own
RedirectsTo(url, target, path) ==
    /\ Len(url) = 2 + Len(path)
    /\ url[1] = target
    /\ url[2] = "?redirectTo="
    /\ \A i \in 1..Len(path) : url[2 + i] \notin {"/", "%"} /\ DecodeChar(url[2 + i]) = path[i]

\* C14: useRequireAuth pushes a navigation only from a render whose auth state
\* has loading = false and user = null, never while loading is true or a user
\* is present; the navigation goes to '<redirectTo>?redirectTo=<encoded current
\* path>'; and a render that brings the auth state to loading = false with no
\* user does push it.
C14_RequireAuth ==
    /\ [](pushed # NoPush =>
            /\ ~loading /\ user = Null
            /\ Len(pushed) = 1
            /\ \E target \in RedirectTargets :
                  /\ guardDeps[4] = target
                  /\ RedirectsTo(pushed[1], target, pathname))
    /\ [][(guardDeps' # guardDeps /\ ~loading' /\ user' = Null) => pushed' # NoPush]_vars

\* C14 witness: loading has ended with no user on a page whose path needs
\* escaping, and the redirect to the default target carries the escaped path
C14_Witness ==
    /\ ~loading /\ user = Null
    /\ pathname = <<"/", "a", "%">>
    /\ pushed = << <<"/login", "?redirectTo=", "%2F", "a", "%25">> >>

----------------------------------------------------------------------------
(* Properties of the mock client (SpecMock) *)

\* the chains that are to end in the promise of { data: [], error: null }
ResolvingChains ==
    { <<"from", "select", "eq", "order">>,
      <<"from", "select", "order">>,
      <<"from", "insert", "select">> }

\* C19 (as claimed): the mock client is chainable as configured:
\* from(t).select() returns an object exposing eq and order, and
\* from(t).select().eq().order(), from(t).select().order() and
\* from(t).insert().select() each resolve to { data: [], error: null }; the
\* return value configured for one chain is not overridden by another's.
C19_Chainable ==
    /\ receiver.path = <<"from", "select">>
          => {"eq", "order"} \subseteq {member[1] : member \in receiver.value.members}
    /\ receiver.path \in ResolvingChains
          => receiver.value \in {ResolvedPromise, EmptyResult}

====
